---- MODULE Spec2Model ----
(***************************************************************************)
(* A model of magic_pdf/model/batch_analyze.py: the document-level driver  *)
(* doc_batch_analyze and the batch orchestrator BatchAnalyze.__call__.     *)
(*                                                                         *)
(* Python values are rendered as follows.                                  *)
(*   - an optional value is a set: None is {} and a present value v is {v};*)
(*   - a str is the sequence of its characters;                            *)
(*   - a list is a sequence; page and image indices are 0-based as in the  *)
(*     source, so element i of a list l is l[i + 1];                       *)
(*   - a region dict is a record; a key the dict does not hold is None;    *)
(*   - a reference to a region of the current image (an element of         *)
(*     ocr_res_list or table_res_list, which alias elements of layout_res) *)
(*     is the position of the region in layout_res.                        *)
(* The detection and recognition models, the dataset and the accelerator   *)
(* are the environment: what they answer is chosen from bounded sets.      *)
(* The arguments lang, show_log and batch_ratio only parameterise calls to *)
(* the collaborators (the bundle lookup and the batch-size hints) and are  *)
(* left out; every call to a collaborator is recorded in `calls`.          *)
(***************************************************************************)
EXTENDS Integers, Sequences, FiniteSets, TLC

\* ------------------------------------------------------------------ bounds
\* MaxPages bounds the dataset's page count and the page arguments; MaxRegions
\* bounds the regions the models produce in one call of the orchestrator
\* (layout regions, formula regions and OCR text boxes together).
MaxPages == 2
MaxRegions == 3

\* ------------------------------------------------------- program constants
CropPad == 50
VramThreshold == 8

None == {}
Some(v) == {v}
Val(o) == CHOOSE v \in o : TRUE

LAYOUTLMv3 == "layoutlmv3"
DocLayout_YOLO == "doclayout_yolo"
STRUCT_EQTABLE == "struct_eqtable"
TABLE_MASTER == "tablemaster"
RAPID_TABLE == "rapid_table"

LayoutModelNames == {LAYOUTLMv3, DocLayout_YOLO}
TableModelNames == {STRUCT_EQTABLE, TABLE_MASTER, RAPID_TABLE}

\* ------------------------------------------------------------------ strings
\* The characters str.strip() removes: those for which str.isspace() holds. A
\* character that has no escape in a TLA+ string is written as its code point.
Whitespace ==
    {"\t", "\n", "U+000B", "\f", "\r", "U+001C", "U+001D", "U+001E", "U+001F",
     " ", "U+0085", "U+00A0", "U+1680", "U+2000", "U+2001", "U+2002", "U+2003",
     "U+2004", "U+2005", "U+2006", "U+2007", "U+2008", "U+2009", "U+200A",
     "U+2028", "U+2029", "U+202F", "U+205F", "U+3000"}

RECURSIVE lstrip(_)
lstrip(s) ==
    IF s # <<>> /\ Head(s) \in Whitespace THEN lstrip(Tail(s)) ELSE s

RECURSIVE rstrip(_)
rstrip(s) ==
    IF s # <<>> /\ s[Len(s)] \in Whitespace
    THEN rstrip(SubSeq(s, 1, Len(s) - 1))
    ELSE s

strip(s) == rstrip(lstrip(s))

endswith(s, suffix) ==
    /\ Len(s) >= Len(suffix)
    /\ SubSeq(s, Len(s) - Len(suffix) + 1, Len(s)) = suffix

HtmlEnd == <<"<", "/", "h", "t", "m", "l", ">">>
TableEnd == <<"<", "/", "t", "a", "b", "l", "e", ">">>

\* The markup strings a table backend may answer with.
MarkupTable == TableEnd
MarkupHtmlCrLf == HtmlEnd \o <<"\r", "\n">>
MarkupTrailingText == TableEnd \o <<"x">>
MarkupBlank == <<" ">>
MarkupEmpty == <<>>

MarkupSamples ==
    {MarkupTable, MarkupHtmlCrLf, MarkupTrailingText, MarkupBlank, MarkupEmpty}

\* ------------------------------------------------------------------ regions
LayoutCategories == {"text", "table"}
OcrCategories == {"text"}
TableCategories == {"table"}
FormulaCategories == {"formula"}

Region(cat, box, content) ==
    [category |-> cat, bbox |-> box, html |-> None, content |-> content]

\* What the layout model finds at position p of a page, and what the formula
\* recognizer finds as its j-th formula: formula j lies inside layout region j.
LayoutRegion(cat, p) ==
    Region(cat, <<100 * p, 100 * p, 100 * p + 80, 100 * p + 40>>, None)
FormulaRegion(j) ==
    Region("formula", <<100 * j + 10, 100 * j + 10, 100 * j + 30, 100 * j + 20>>,
           Some("latex"))

RECURSIVE SumLen(_)
SumLen(ls) == IF ls = <<>> THEN 0 ELSE Len(Head(ls)) + SumLen(Tail(ls))

\* Positions of the elements of s that satisfy Test, in order.
Positions(s, Test(_)) ==
    SelectSeq([k \in 1..Len(s) |-> k], LAMBDA k : Test(s[k]))

\* ---------------------------------------------------------- region geometry
\* crop_img: the crop window is the region's box widened by the padding; the
\* offset takes a point of the crop's local frame back to the page.
crop_img(res, crop_paste_x, crop_paste_y) ==
    [dx |-> res.bbox[1] - crop_paste_x,
     dy |-> res.bbox[2] - crop_paste_y,
     x0 |-> res.bbox[1] - crop_paste_x,
     y0 |-> res.bbox[2] - crop_paste_y,
     x1 |-> res.bbox[3] + crop_paste_x,
     y1 |-> res.bbox[4] + crop_paste_y]

InsideCrop(box, useful_list) ==
    /\ useful_list.x0 <= box[1] /\ box[3] <= useful_list.x1
    /\ useful_list.y0 <= box[2] /\ box[4] <= useful_list.y1

ToLocal(box, useful_list) ==
    <<box[1] - useful_list.dx, box[2] - useful_list.dy,
      box[3] - useful_list.dx, box[4] - useful_list.dy>>

ToPage(box, useful_list) ==
    <<box[1] + useful_list.dx, box[2] + useful_list.dy,
      box[3] + useful_list.dx, box[4] + useful_list.dy>>

get_adjusted_mfdetrec_res(single_page_mfdetrec_res, useful_list) ==
    LET keep == Positions(single_page_mfdetrec_res,
                          LAMBDA b : InsideCrop(b, useful_list))
    IN [k \in 1..Len(keep) |->
            ToLocal(single_page_mfdetrec_res[keep[k]], useful_list)]

get_ocr_result_list(ocr_res, useful_list) ==
    [k \in 1..Len(ocr_res) |->
        Region("ocr_text", ToPage(ocr_res[k].box, useful_list), ocr_res[k].text)]

\* ----------------------------------------------------------- region splitter
get_res_list_from_layout_res(layout_res) ==
    [ocr_res_list |->
        Positions(layout_res, LAMBDA r : r.category \in OcrCategories),
     table_res_list |->
        Positions(layout_res, LAMBDA r : r.category \in TableCategories),
     single_page_mfdetrec_res |->
        LET f == Positions(layout_res,
                           LAMBDA r : r.category \in FormulaCategories)
        IN [k \in 1..Len(f) |-> layout_res[f[k]].bbox]]

\* -------------------------------------------------------------- environment
\* The dataset: page index i holds image i, of width 600 + i and height 800 + i.
Page(i) == [img |-> i, width |-> 600 + i, height |-> 800 + i]
Dataset(n) == [k \in 1..n |-> Page(k - 1)]
get_page(ds, i) == ds[i + 1]

\* The model bundle the provider resolves.
Bundles ==
    [layout_model_name : LayoutModelNames,
     apply_formula : BOOLEAN,
     apply_ocr : BOOLEAN,
     apply_table : BOOLEAN,
     table_model_name : TableModelNames,
     table_max_time : {1}]

\* What the layout model may answer for a batch of n images.
LayoutLists ==
    UNION {[1..k -> LayoutCategories] : k \in 0..MaxRegions}
BatchLayouts(n) ==
    {[i \in 1..n |-> [p \in 1..Len(c[i]) |-> LayoutRegion(c[i][p], p)]] :
        c \in {d \in [1..n -> LayoutLists] : SumLen(d) <= MaxRegions}}

\* What the formula recognizer may answer for a batch of n images, with room
\* for that many more regions.
BatchFormulas(n, room) ==
    {[i \in 1..n |-> [j \in 1..c[i] |-> FormulaRegion(j)]] :
        c \in {d \in [1..n -> 0..room] :
                  SumLen([i \in 1..n |-> [j \in 1..d[i] |-> j]]) <= room}}

\* What the OCR engine may answer for one crop: boxes in the crop's frame.
OcrBox(j, rec) ==
    [box |-> <<CropPad + 10 * j, CropPad, CropPad + 10 * j + 8, CropPad + 8>>,
     text |-> IF rec THEN Some("text") ELSE None]
OcrAnswers(rec, room) ==
    {[j \in 1..n |-> OcrBox(j, rec)] : n \in 0..room}

\* What a table backend may answer, by variant.
TableAnswers(name) ==
    IF name = STRUCT_EQTABLE
    THEN {<<>>} \cup {<<s>> : s \in MarkupSamples}
    ELSE {None} \cup {Some(s) : s \in MarkupSamples}

\* ------------------------------------------------------------------- state
VARIABLES
    cuda,                     \* torch.cuda.is_available()
    dataset,                  \* the dataset argument
    start_page_id,            \* argument
    end_page_id,              \* argument, reassigned at line 192
    requested_end,            \* the end_page_id the caller passed
    bundle,                   \* what ModelSingleton().get_model answers
    custom_model,             \* doc_batch_analyze: custom_model / self.model
    pc,                       \* position in doc_batch_analyze / __call__
    error,                    \* the exception raised, if any
    images,                   \* the image batch
    images_layout_res,        \* __call__: one region list per image
    images_formula_list,      \* __call__: recognized formulas per image
    index,                    \* __call__: the image loop's index
    ocr_res_list,             \* __call__: references to OCR candidates
    table_res_list,           \* __call__: references to table candidates
    single_page_mfdetrec_res, \* __call__: formula boxes of the image
    ocr_i,                    \* __call__: next element of ocr_res_list
    table_i,                  \* __call__: next element of table_res_list
    html_code,                \* __call__: markup of the last table region
    run_time,                 \* __call__: duration of the last table call
    logged,                   \* kinds of logger messages emitted
    calls,                    \* calls made to collaborators, in order
    analyze_result,           \* doc_batch_analyze: what batch_model answered
    model_json,               \* doc_batch_analyze: the page records
    page,                     \* doc_batch_analyze: second loop's index
    result                    \* what doc_batch_analyze returned

vars ==
    <<cuda, dataset, start_page_id, end_page_id, requested_end, bundle, custom_model, pc,
      error, images, images_layout_res, images_formula_list, index,
      ocr_res_list, table_res_list, single_page_mfdetrec_res, ocr_i, table_i,
      html_code, run_time, logged, calls, analyze_result, model_json, page,
      result>>

env_vars == <<cuda, dataset, bundle, requested_end>>
arg_vars == <<start_page_id, end_page_id>>
driver_vars == <<custom_model, analyze_result, model_json, page, result>>
image_vars == <<ocr_res_list, table_res_list, single_page_mfdetrec_res>>
table_vars == <<html_code, run_time>>

Call(op, a, b) == <<op, a, b>>

\* ------------------------------------------------- doc_batch_analyze helpers
truthy_int(o) == o # None /\ Val(o) # 0

resolve_end_page_id(end, n) == IF truthy_int(end) THEN end ELSE Some(n)

in_range(start, i, end) == start <= i /\ i <= Val(end)

in_range_pages(ds, start, end) ==
    SelectSeq([k \in 1..Len(ds) |-> k - 1], LAMBDA i : in_range(start, i, end))

collect_images(ds, start, end) ==
    LET ps == in_range_pages(ds, start, end)
    IN [k \in 1..Len(ps) |-> get_page(ds, ps[k]).img]

\* A page record with the page's width and height exchanged.
page_dict_swapped(i, res, img_dict) ==
    [layout_dets |-> res,
     page_info |-> [page_no |-> i,
                    height |-> img_dict.width,
                    width |-> img_dict.height]]

page_dict(i, res, img_dict) ==
    [layout_dets |-> res,
     page_info |-> [page_no |-> i,
                    height |-> img_dict.height,
                    width |-> img_dict.width]]

NoResult == [bound |-> FALSE, value |-> None]

\* ----------------------------------------------------------------- Init
InitLocals ==
    /\ images_formula_list = <<>>
    /\ index = 0
    /\ ocr_res_list = <<>>
    /\ table_res_list = <<>>
    /\ single_page_mfdetrec_res = <<>>
    /\ ocr_i = 1
    /\ table_i = 1
    /\ html_code = None
    /\ run_time = 0

\* The state at the entry of doc_batch_analyze.
Entry(cudas, starts, ends, bundles) ==
    /\ cuda \in cudas
    /\ dataset \in {Dataset(n) : n \in 0..MaxPages}
    /\ start_page_id \in starts
    /\ end_page_id \in ends
    /\ requested_end = end_page_id
    /\ bundle \in bundles
    /\ custom_model = None
    /\ pc = "entry"
    /\ error = None
    /\ images = <<>>
    /\ images_layout_res = <<>>
    /\ InitLocals
    /\ logged = {}
    /\ calls = <<>>
    /\ analyze_result = NoResult
    /\ model_json = <<>>
    /\ page = 0
    /\ result = None

\* Every page range, with or without the accelerator, under the bundle with
\* every feature on.
FullBundles ==
    {b \in Bundles : /\ b.apply_formula /\ b.apply_ocr /\ b.apply_table
                     /\ b.layout_model_name = DocLayout_YOLO
                     /\ b.table_model_name = RAPID_TABLE}
Init ==
    Entry(BOOLEAN, 0..MaxPages, {None} \cup {Some(e) : e \in 0..MaxPages},
          FullBundles)

\* The whole document, under every choice of the feature flags and of the
\* layout model.
FlagBundles == {b \in Bundles : b.table_model_name = RAPID_TABLE}
InitCall == Entry({TRUE}, {0}, {None}, FlagBundles)

\* The whole document with table recognition on, under every table backend.
TableBundles ==
    {b \in Bundles : b.apply_table /\ b.layout_model_name = DocLayout_YOLO}
InitTable == Entry({TRUE}, {0}, {None}, TableBundles)

\* ------------------------------------------------------- doc_batch_analyze
\* The accelerator check made only after the model bundle was resolved.
CheckCudaAfterResolve ==
    /\ pc = "entry"
    /\ calls' = Append(calls, Call("get_model", 0, 0))
    /\ custom_model' = Some(bundle)
    /\ IF cuda
       THEN /\ pc' = "resolve"
            /\ error' = error
       ELSE /\ pc' = "raised"
            /\ error' = Some("CUDA_NOT_AVAILABLE")
    /\ UNCHANGED <<env_vars, arg_vars, analyze_result, model_json, page, result,
                   images, images_layout_res, images_formula_list, index,
                   image_vars, ocr_i, table_i, table_vars, logged>>

\* lines 186-187
CheckCuda ==
    /\ pc = "entry"
    /\ IF cuda
       THEN /\ pc' = "resolve"
            /\ error' = error
       ELSE /\ pc' = "raised"
            /\ error' = Some("CUDA_NOT_AVAILABLE")
    /\ UNCHANGED <<env_vars, arg_vars, driver_vars, images, images_layout_res,
                   images_formula_list, index, image_vars, ocr_i, table_i,
                   table_vars, logged, calls>>

\* lines 189-200
ResolveModel ==
    /\ pc = "resolve"
    /\ end_page_id' = resolve_end_page_id(end_page_id, Len(dataset))
    /\ calls' = Append(calls, Call("get_model", 0, 0))
    /\ custom_model' = Some(bundle)
    /\ model_json' = <<>>
    /\ pc' = "collect"
    /\ UNCHANGED <<env_vars, start_page_id, error, images, images_layout_res,
                   images_formula_list, index, image_vars, ocr_i, table_i,
                   table_vars, logged, analyze_result, page, result>>

\* lines 203-208
CollectImages ==
    /\ pc = "collect"
    /\ images' = collect_images(dataset, start_page_id, end_page_id)
    /\ LET ps == in_range_pages(dataset, start_page_id, end_page_id)
       IN calls' = calls \o [k \in 1..Len(ps) |-> Call("get_page", ps[k], 0)]
    /\ pc' = "layout"
    /\ UNCHANGED <<env_vars, arg_vars, driver_vars, error, images_layout_res,
                   images_formula_list, index, image_vars, ocr_i, table_i,
                   table_vars, logged>>

\* ----------------------------------------------------- BatchAnalyze.__call__
self_model == Val(custom_model)

Room(res) == MaxRegions - SumLen(res)

UpdateImage(res, i, new) == [res EXCEPT ![i + 1] = new]

\* lines 37-47: which layout calls are made for the batch
layout_calls(name, imgs) ==
    IF name = LAYOUTLMv3
    THEN [k \in 1..Len(imgs) |-> Call("layout_model", imgs[k], 0)]
    ELSE IF name = DocLayout_YOLO
    THEN <<Call("layout_batch_predict", Len(imgs), 0)>>
    ELSE <<>>

\* lines 37-47: images_layout_res is assigned under these two names only
layout_bound(name) == name \in {LAYOUTLMv3, DocLayout_YOLO}

\* lines 37-47
LayoutStage ==
    /\ pc = "layout"
    /\ IF layout_bound(self_model.layout_model_name)
       THEN \E res \in BatchLayouts(Len(images)) : images_layout_res' = res
       ELSE images_layout_res' = images_layout_res
    /\ calls' = calls \o layout_calls(self_model.layout_model_name, images)
    /\ pc' = "formula"
    /\ UNCHANGED <<env_vars, arg_vars, driver_vars, error, images,
                   images_formula_list, index, image_vars, ocr_i, table_i,
                   table_vars, logged>>

\* The formula regions put in front of the layout regions.
merge_formula_in_front(layout, formulas) ==
    [i \in 1..Len(layout) |-> formulas[i] \o layout[i]]

\* lines 61-62
merge_formula(layout, formulas) ==
    [i \in 1..Len(layout) |-> layout[i] \o formulas[i]]

\* Formula recognition called ahead of formula detection.
FormulaStageRecognitionFirst ==
    /\ pc = "formula"
    /\ IF self_model.apply_formula
       THEN /\ \E formulas \in BatchFormulas(Len(images), Room(images_layout_res)) :
                  /\ images_formula_list' = formulas
                  /\ images_layout_res' = merge_formula(images_layout_res, formulas)
            /\ calls' = calls \o <<Call("mfr_batch_predict", Len(images), 0),
                                   Call("mfd_batch_predict", Len(images), 0)>>
       ELSE UNCHANGED <<images_formula_list, images_layout_res, calls>>
    /\ pc' = "clean_vram"
    /\ UNCHANGED <<env_vars, arg_vars, driver_vars, error, images, index,
                   image_vars, ocr_i, table_i, table_vars, logged>>

\* lines 49-62
FormulaStage ==
    /\ pc = "formula"
    /\ IF self_model.apply_formula
       THEN /\ \E formulas \in BatchFormulas(Len(images), Room(images_layout_res)) :
                  /\ images_formula_list' = formulas
                  /\ IF layout_bound(self_model.layout_model_name) \/ images = <<>>
                     THEN /\ images_layout_res' =
                                merge_formula(images_layout_res, formulas)
                          /\ pc' = "clean_vram"
                          /\ error' = error
                     ELSE \* line 62 reads a name that was never assigned
                          /\ images_layout_res' = images_layout_res
                          /\ pc' = "raised"
                          /\ error' = Some("UnboundLocalError")
            /\ calls' = calls \o <<Call("mfd_batch_predict", Len(images), 0),
                                   Call("mfr_batch_predict", Len(images), 0)>>
       ELSE /\ pc' = "clean_vram"
            /\ UNCHANGED <<images_formula_list, images_layout_res, calls, error>>
    /\ UNCHANGED <<env_vars, arg_vars, driver_vars, images, index,
                   image_vars, ocr_i, table_i, table_vars, logged>>

\* The image loop entered with the cleanup left out.
CleanVramLeftOut ==
    /\ pc = "clean_vram"
    /\ index' = 0
    /\ pc' = "image"
    /\ UNCHANGED <<env_vars, arg_vars, driver_vars, error, images,
                   images_layout_res, images_formula_list, image_vars, ocr_i,
                   table_i, table_vars, logged, calls>>

\* lines 64-65
CleanVram ==
    /\ pc = "clean_vram"
    /\ calls' = Append(calls, Call("clean_vram", VramThreshold, 0))
    /\ index' = 0
    /\ pc' = "image"
    /\ UNCHANGED <<env_vars, arg_vars, driver_vars, error, images,
                   images_layout_res, images_formula_list, image_vars, ocr_i,
                   table_i, table_vars, logged>>

\* lines 68-76: the head of the image loop and the region split
SplitImage ==
    /\ pc = "image"
    /\ index < Len(images)
    /\ IF layout_bound(self_model.layout_model_name)
       THEN /\ LET split ==
                   get_res_list_from_layout_res(images_layout_res[index + 1])
               IN /\ ocr_res_list' = split.ocr_res_list
                  /\ table_res_list' = split.table_res_list
                  /\ single_page_mfdetrec_res' = split.single_page_mfdetrec_res
            /\ calls' = Append(calls, Call("split", index, 0))
            /\ ocr_i' = 1
            /\ pc' = "ocr"
            /\ error' = error
       ELSE \* line 69 reads a name that was never assigned
            /\ pc' = "raised"
            /\ error' = Some("UnboundLocalError")
            /\ UNCHANGED <<image_vars, calls, ocr_i>>
    /\ UNCHANGED <<env_vars, arg_vars, driver_vars, images,
                   images_layout_res, images_formula_list, index, table_i,
                   table_vars, logged>>

\* The text boxes taking the place of the regions before them.
integrate_ocr_overwriting(layout_res, ocr_res, useful_list) ==
    IF ocr_res # <<>>
    THEN get_ocr_result_list(ocr_res, useful_list)
         \o SubSeq(layout_res, Len(ocr_res) + 1, Len(layout_res))
    ELSE layout_res

\* lines 99-101
integrate_ocr(layout_res, ocr_res, useful_list) ==
    IF ocr_res # <<>>
    THEN layout_res \o get_ocr_result_list(ocr_res, useful_list)
    ELSE layout_res

\* lines 89-96: which engine call is made
ocr_call(apply_ocr, i, ref, mfd_res) ==
    Call(IF apply_ocr THEN "ocr" ELSE "ocr_det_only", i, ref)

\* lines 78-101: one element of ocr_res_list
OcrRegion ==
    /\ pc = "ocr"
    /\ ocr_i <= Len(ocr_res_list)
    /\ LET layout_res == images_layout_res[index + 1]
           ref == ocr_res_list[ocr_i]
           useful_list == crop_img(layout_res[ref], CropPad, CropPad)
           adjusted_mfdetrec_res ==
               get_adjusted_mfdetrec_res(single_page_mfdetrec_res, useful_list)
       IN /\ \E ocr_res \in OcrAnswers(self_model.apply_ocr, Room(images_layout_res)) :
                images_layout_res' =
                    UpdateImage(images_layout_res, index,
                                integrate_ocr(layout_res, ocr_res, useful_list))
          /\ calls' = Append(calls, ocr_call(self_model.apply_ocr, index, ref,
                                             adjusted_mfdetrec_res))
    /\ ocr_i' = ocr_i + 1
    /\ UNCHANGED <<env_vars, arg_vars, driver_vars, pc, error, images,
                   images_formula_list, index, image_vars, table_i, table_vars,
                   logged>>

\* lines 103-111, and line 68 when table recognition is off
OcrDone ==
    /\ pc = "ocr"
    /\ ocr_i > Len(ocr_res_list)
    /\ logged' = logged \cup {IF self_model.apply_ocr THEN "ocr time" ELSE "det time"}
    /\ IF self_model.apply_table
       THEN /\ table_i' = 1
            /\ pc' = "table"
            /\ index' = index
       ELSE /\ table_i' = table_i
            /\ pc' = "image"
            /\ index' = index + 1
    /\ UNCHANGED <<env_vars, arg_vars, driver_vars, error, images,
                   images_layout_res, images_formula_list, image_vars, ocr_i,
                   table_vars, calls>>

\* lines 115-128: the markup the backend's answer yields
html_of(name, answer) ==
    IF name = STRUCT_EQTABLE
    THEN (IF Len(answer) > 0 THEN Some(answer[1]) ELSE None)
    ELSE IF name \in {TABLE_MASTER, RAPID_TABLE} THEN answer
    ELSE None

\* line 135
truthy_str(o) == o # None /\ Val(o) # <<>>

\* The closing tag looked for without trimming the markup first.
expected_ending_untrimmed(html) ==
    endswith(html, HtmlEnd) \/ endswith(html, TableEnd)

\* lines 136-138
expected_ending(html) ==
    endswith(strip(html), HtmlEnd) \/ endswith(strip(html), TableEnd)

\* lines 135-148: the region after the markup was judged
attach_html(res, html) ==
    IF truthy_str(html) /\ expected_ending(Val(html))
    THEN [res EXCEPT !.html = html]
    ELSE res

\* lines 129-148: the warnings of one table region
table_warnings(html, time, max_time) ==
    (IF time > max_time THEN {"exceeds max time"} ELSE {})
    \cup (IF truthy_str(html)
          THEN (IF expected_ending(Val(html)) THEN {} ELSE {"no expected end"})
          ELSE {"no html return"})

\* lines 112-148: one element of table_res_list
TableRegion ==
    /\ pc = "table"
    /\ table_i <= Len(table_res_list)
    /\ \E answer \in TableAnswers(self_model.table_model_name),
          time \in {self_model.table_max_time, self_model.table_max_time + 1} :
          LET layout_res == images_layout_res[index + 1]
              ref == table_res_list[table_i]
              html == html_of(self_model.table_model_name, answer)
          IN /\ html_code' = html
             /\ run_time' = time
             /\ logged' = logged \cup
                    table_warnings(html, time, self_model.table_max_time)
             /\ images_layout_res' =
                    UpdateImage(images_layout_res, index,
                        [layout_res EXCEPT ![ref] = attach_html(layout_res[ref], html)])
             /\ calls' = Append(calls, Call("table", index, ref))
    /\ table_i' = table_i + 1
    /\ UNCHANGED <<env_vars, arg_vars, driver_vars, pc, error, images,
                   images_formula_list, index, image_vars, ocr_i>>

\* line 149, and line 68
TableDone ==
    /\ pc = "table"
    /\ table_i > Len(table_res_list)
    /\ logged' = logged \cup {"table time"}
    /\ index' = index + 1
    /\ pc' = "image"
    /\ UNCHANGED <<env_vars, arg_vars, driver_vars, error, images,
                   images_layout_res, images_formula_list, image_vars, ocr_i,
                   table_i, table_vars, calls>>

\* What __call__ hands back: the function ends at line 149 with no return
\* statement, so the call evaluates to None.
call_value(layout) == None

\* line 68 (the loop ends), line 149 (the function ends), line 209
CallReturn ==
    /\ pc = "image"
    /\ index = Len(images)
    /\ analyze_result' = [bound |-> TRUE, value |-> call_value(images_layout_res)]
    /\ images_formula_list' = <<>>
    /\ index' = 0
    /\ ocr_res_list' = <<>>
    /\ table_res_list' = <<>>
    /\ single_page_mfdetrec_res' = <<>>
    /\ ocr_i' = 1
    /\ table_i' = 1
    /\ html_code' = None
    /\ run_time' = 0
    /\ page' = 0
    /\ pc' = "assemble"
    /\ UNCHANGED <<env_vars, arg_vars, custom_model, model_json, result, error,
                   images, images_layout_res, logged, calls>>

\* ------------------------------------------- doc_batch_analyze, second part
\* lines 211-223: one page of the second loop
AssemblePage ==
    /\ pc = "assemble"
    /\ page < Len(dataset)
    /\ LET img_dict == get_page(dataset, page)
       IN IF in_range(start_page_id, page, end_page_id)
          THEN IF analyze_result.value = None
               THEN \* None has no pop
                    /\ pc' = "raised"
                    /\ error' = Some("AttributeError")
                    /\ UNCHANGED <<analyze_result, model_json, page>>
               ELSE IF Val(analyze_result.value) = <<>>
               THEN /\ pc' = "raised"
                    /\ error' = Some("IndexError")
                    /\ UNCHANGED <<analyze_result, model_json, page>>
               ELSE /\ analyze_result' =
                        [analyze_result EXCEPT
                            !.value = Some(Tail(Val(analyze_result.value)))]
                    /\ model_json' =
                        Append(model_json,
                               page_dict(page, Head(Val(analyze_result.value)),
                                         img_dict))
                    /\ page' = page + 1
                    /\ UNCHANGED <<pc, error>>
          ELSE /\ model_json' = Append(model_json, page_dict(page, <<>>, img_dict))
               /\ page' = page + 1
               /\ UNCHANGED <<pc, error, analyze_result>>
    /\ calls' = Append(calls, Call("get_page", page, 0))
    /\ UNCHANGED <<env_vars, arg_vars, custom_model, result, images,
                   images_layout_res, images_formula_list, index, image_vars,
                   ocr_i, table_i, table_vars, logged>>

\* lines 225-228
Finish ==
    /\ pc = "assemble"
    /\ page = Len(dataset)
    /\ calls' = Append(calls, Call("clean_memory", 0, 0))
    /\ result' = Some([model_json |-> model_json, dataset |-> dataset])
    /\ pc' = "done"
    /\ UNCHANGED <<env_vars, arg_vars, custom_model, analyze_result, model_json,
                   page, error, images, images_layout_res, images_formula_list,
                   index, image_vars, ocr_i, table_i, table_vars, logged>>

\* ------------------------------------------------------------ specification
CallNext ==
    \/ LayoutStage
    \/ FormulaStage
    \/ CleanVram
    \/ SplitImage
    \/ OcrRegion
    \/ OcrDone
    \/ TableRegion
    \/ TableDone
    \/ CallReturn

Next ==
    \/ CheckCuda
    \/ ResolveModel
    \/ CollectImages
    \/ CallNext
    \/ AssemblePage
    \/ Finish

Spec == Init /\ [][Next]_vars
SpecCall == InitCall /\ [][Next]_vars
SpecTable == InitTable /\ [][Next]_vars

\* ------------------------------------------------------------------ claims
N == Len(dataset)

\* The pages the caller asked for: start_page_id..end_page_id inclusive, to the
\* last page when no end was given.
RequestedPages ==
    {i \in 0..(N - 1) :
        /\ start_page_id <= i
        /\ (requested_end # None => i <= Val(requested_end))}

Ended == pc \in {"done", "raised"}

Called(op) == \E k \in 1..Len(calls) : calls[k][1] = op

\* C1: with the accelerator available and a page range that holds at least one
\* page, doc_batch_analyze returns exactly N page records in ascending page
\* order, the record at position i carrying page_no = i.
C1_OneRecordPerPage ==
    (Ended /\ cuda /\ RequestedPages # {}) =>
        /\ pc = "done"
        /\ result # None
        /\ Len(Val(result).model_json) = N
        /\ \A k \in 1..Len(Val(result).model_json) :
              Val(result).model_json[k].page_info.page_no = k - 1

\* C2: __call__ hands back one region list per image, index-aligned with the
\* batch, and the k-th in-range page receives the k-th of them, each list
\* being consumed once.
C2_ResultsAlignedWithBatch ==
    /\ (pc = "assemble" /\ page = 0) =>
          /\ analyze_result.value # None
          /\ Val(analyze_result.value) = images_layout_res
          /\ Len(Val(analyze_result.value)) = Len(images)
    /\ (pc = "done" /\ cuda) =>
          /\ analyze_result.value = Some(<<>>)
          /\ \A k \in 1..Len(images) :
                model_json[images[k] + 1].layout_dets = images_layout_res[k]

\* C3: every page record of a page outside the requested range has an empty
\* region list and the width and height the dataset reports for that page.
C3_OutOfRangePagesEmpty ==
    \A k \in 1..Len(model_json) :
        LET i == model_json[k].page_info.page_no
        IN i \notin RequestedPages =>
              /\ model_json[k].layout_dets = <<>>
              /\ model_json[k].page_info.width = dataset[i + 1].width
              /\ model_json[k].page_info.height = dataset[i + 1].height

C3_Witness ==
    /\ pc = "done"
    /\ Len(Val(result).model_json) = MaxPages
    /\ RequestedPages = {}

\* C4: the batch handed to the orchestrator is exactly the images of pages
\* start_page_id..end_page_id when 0 <= start_page_id <= end_page_id < N is
\* given (end_page_id = 0 included), and of pages start_page_id..N-1 when no
\* end_page_id is given.
C4_BatchIsRequestedRange ==
    (/\ pc \notin {"entry", "resolve", "collect"}
     /\ cuda
     /\ \/ requested_end = None
        \/ start_page_id <= Val(requested_end) /\ Val(requested_end) < N) =>
        LET last == IF requested_end = None THEN N - 1 ELSE Val(requested_end)
        IN /\ Len(images) = Cardinality(start_page_id..last)
           /\ \A k \in 1..Len(images) :
                 images[k] = dataset[start_page_id + k].img

\* C5: without the accelerator doc_batch_analyze raises CUDA_NOT_AVAILABLE
\* before any work: no model bundle resolved, no page read, no orchestrator or
\* cleanup call, nothing returned.
C5_FailsFastWithoutCuda ==
    ~cuda =>
        /\ pc \in {"entry", "raised"}
        /\ pc = "raised" => error = Some("CUDA_NOT_AVAILABLE")
        /\ calls = <<>>
        /\ custom_model = None
        /\ images = <<>>
        /\ model_json = <<>>
        /\ result = None

C5_Witness == pc = "raised" /\ ~cuda /\ N > 0

\* ------------------------------------------------- claims about __call__
Flags == bundle

LayoutOps == {"layout_model", "layout_batch_predict"}
OcrOps == {"ocr", "ocr_det_only"}
PerImageOps == {"split", "table"} \cup OcrOps
BatchOps == LayoutOps \cup {"mfd_batch_predict", "mfr_batch_predict"}

InImageLoop == pc \in {"image", "ocr", "table"}
AfterCall == pc \in {"assemble", "done"} \/ (pc = "raised" /\ cuda)

CountCalls(ops, a, b) ==
    Cardinality({k \in 1..Len(calls) :
                    calls[k][1] \in ops /\ calls[k][2] = a /\ calls[k][3] = b})

CountOp(op) == Cardinality({k \in 1..Len(calls) : calls[k][1] = op})

\* The text of a markup, with trailing blanks set aside, ends with a closing
\* html or table tag.
EndsWithClosingTag(s) ==
    \E i \in 1..Len(s) :
        /\ s[i] \notin Whitespace
        /\ \A j \in (i + 1)..Len(s) : s[j] \in Whitespace
        /\ \E tag \in {HtmlEnd, TableEnd} :
              /\ i >= Len(tag)
              /\ SubSeq(s, i - Len(tag) + 1, i) = tag

\* C6: with table recognition on, a table candidate's html is set exactly when
\* the backend's markup is non-empty and, trimmed, ends with </html> or
\* </table>, whatever the backend and however long the call took; no region
\* other than such a table candidate ever holds html, and every table
\* candidate of every image is handed to the backend once, invalid or missing
\* markup of earlier regions notwithstanding.
C6_HtmlSetIffMarkupValid ==
    /\ (pc = "table" /\ table_i > 1) =>
          LET r == images_layout_res[index + 1][table_res_list[table_i - 1]]
          IN r.html = IF html_code # None /\ EndsWithClosingTag(Val(html_code))
                      THEN html_code
                      ELSE None
    /\ \A i \in 1..Len(images_layout_res) :
          \A p \in 1..Len(images_layout_res[i]) :
              LET r == images_layout_res[i][p]
              IN /\ r.html # None =>
                       r.category = "table" /\ EndsWithClosingTag(Val(r.html))
                 /\ (r.category = "table" /\ (AfterCall \/ i < index + 1)) =>
                       CountCalls({"table"}, i - 1, p) = 1
    /\ InImageLoop => error = None

C6_Witness ==
    /\ pc = "table"
    /\ table_i = 3
    /\ run_time > self_model.table_max_time
    /\ images_layout_res[index + 1][table_res_list[1]].html = None
    /\ images_layout_res[index + 1][table_res_list[2]].html = Some(MarkupHtmlCrLf)
    /\ "no expected end" \in logged

\* C7, as stated: clean_vram is triggered only after the OCR and table stages
\* of every image of the batch have finished, and before the call returns.
C7_CleanupAfterAllImages ==
    /\ Called("clean_vram") =>
          (pc = "image" /\ index = Len(images)) \/ AfterCall
    /\ AfterCall => Called("clean_vram")

\* C7, amended: clean_vram is triggered exactly once in every call, with
\* threshold 8, after the layout stage and (if enabled) the formula stage of
\* the whole batch and before the region split, OCR or table step of any
\* image; it is not triggered again before the call returns.
C7_CleanupBeforeImageLoop ==
    /\ (InImageLoop \/ AfterCall) => CountCalls({"clean_vram"}, 8, 0) = 1
    /\ CountOp("clean_vram") <= 1
    /\ \A k \in 1..Len(calls) :
          calls[k][1] = "clean_vram" =>
              /\ \A j \in 1..(k - 1) : calls[j][1] \notin PerImageOps
              /\ \A j \in (k + 1)..Len(calls) : calls[j][1] \notin BatchOps
              /\ Len(images) > 0 => \E j \in 1..(k - 1) : calls[j][1] \in LayoutOps
              /\ Flags.apply_formula =>
                    \E j \in 1..(k - 1) : calls[j][1] = "mfr_batch_predict"

C7_Witness ==
    /\ pc = "table"
    /\ index = 1
    /\ table_i > 1
    /\ Called("clean_vram")
    /\ Called("mfr_batch_predict")

\* The place of a call in the fixed stage order; -1 for calls outside it.
Rank(c) ==
    CASE c[1] \in LayoutOps -> 0
      [] c[1] = "mfd_batch_predict" -> 1
      [] c[1] = "mfr_batch_predict" -> 2
      [] c[1] = "split" -> 10 + 3 * c[2]
      [] c[1] \in OcrOps -> 11 + 3 * c[2]
      [] c[1] = "table" -> 12 + 3 * c[2]
      [] OTHER -> -1

Contains(list, r) == \E p \in 1..Len(list) : list[p] = r

\* C8: layout detection of the whole batch comes first, then (if enabled)
\* formula detection and then formula recognition of the whole batch, and only
\* then, image by image in batch order, the region split, the OCR step and the
\* table step; an image is split only after its formula regions were merged
\* into its region list, and its table step starts only after the OCR of all
\* its OCR candidates.
C8_StageOrder ==
    LET ranks == SelectSeq([k \in 1..Len(calls) |-> Rank(calls[k])],
                           LAMBDA r : r >= 0)
        last == IF ranks = <<>> THEN -1 ELSE ranks[Len(ranks)]
    IN
    /\ \A k \in 1..(Len(ranks) - 1) : ranks[k] <= ranks[k + 1]
    /\ last >= 1 =>
          /\ IF Flags.layout_model_name = LAYOUTLMv3
             THEN \A i \in 1..Len(images) :
                      CountCalls({"layout_model"}, images[i], 0) = 1
             ELSE CountCalls({"layout_batch_predict"}, Len(images), 0) = 1
          /\ Len(images_layout_res) = Len(images)
    /\ last >= 10 =>
          IF Flags.apply_formula
          THEN /\ CountOp("mfd_batch_predict") = 1
               /\ CountOp("mfr_batch_predict") = 1
          ELSE /\ CountOp("mfd_batch_predict") = 0
               /\ CountOp("mfr_batch_predict") = 0
    /\ (InImageLoop /\ Flags.apply_formula) =>
          \A i \in 1..Len(images) :
              \A j \in 1..Len(images_formula_list[i]) :
                  Contains(images_layout_res[i], images_formula_list[i][j])
    /\ \A i \in 1..Len(images_layout_res) :
          (\E k \in 1..Len(calls) : calls[k][1] = "table" /\ calls[k][2] = i - 1) =>
              \A p \in 1..Len(images_layout_res[i]) :
                  images_layout_res[i][p].category \in OcrCategories =>
                      CountCalls(OcrOps, i - 1, p) = 1

C8_Witness ==
    /\ Called("mfr_batch_predict")
    /\ \E p \in 1..MaxRegions : CountCalls(OcrOps, 1, p) = 1
    /\ \E p \in 1..MaxRegions : CountCalls({"table"}, 1, p) = 1
    /\ CountCalls({"split"}, 0, 0) = 1
    /\ \E i \in 1..Len(images_formula_list) : images_formula_list[i] # <<>>

\* C9: the formula stage leaves each image's region list equal to its
\* layout-stage list followed by all recognized-formula regions of that image,
\* in order, when formula is enabled; when it is disabled the lists stay as
\* the layout stage left them and neither formula model is called.
C9_FormulaAppended ==
    [][pc = "formula" =>
         IF Flags.apply_formula
         THEN /\ Len(images_layout_res') = Len(images_layout_res)
              /\ Len(images_formula_list') = Len(images)
              /\ \A i \in 1..Len(images_layout_res) :
                    images_layout_res'[i] =
                        images_layout_res[i] \o images_formula_list'[i]
              /\ calls' = calls \o <<Call("mfd_batch_predict", Len(images), 0),
                                     Call("mfr_batch_predict", Len(images), 0)>>
         ELSE /\ images_layout_res' = images_layout_res
              /\ calls' = calls]_vars

C9_Witness ==
    /\ pc = "clean_vram"
    /\ Flags.apply_formula
    /\ \E i \in 1..Len(images_formula_list) :
          /\ images_formula_list[i] # <<>>
          /\ Len(images_layout_res[i]) > Len(images_formula_list[i])

\* C10: an OCR step only appends to the image's region list: the engine is
\* called once for the candidate (with recognition iff apply_ocr), a non-empty
\* answer adds its text boxes, moved to page coordinates, after all regions
\* already there, an empty answer adds nothing and raises nothing, and every
\* region already there, the candidate included, stays in place unchanged.
C10_OcrStep ==
    (pc = "ocr" /\ ocr_i' = ocr_i + 1) =>
        LET old == images_layout_res[index + 1]
            new == images_layout_res'[index + 1]
            ref == ocr_res_list[ocr_i]
            dx == old[ref].bbox[1] - 50
            dy == old[ref].bbox[2] - 50
        IN /\ Len(new) >= Len(old)
           /\ SubSeq(new, 1, Len(old)) = old
           /\ \A i \in 1..Len(images_layout_res) :
                 i # index + 1 => images_layout_res'[i] = images_layout_res[i]
           /\ \E answer \in OcrAnswers(Flags.apply_ocr, MaxRegions) :
                 /\ Len(new) = Len(old) + Len(answer)
                 /\ \A j \in 1..Len(answer) :
                       /\ new[Len(old) + j].category = "ocr_text"
                       /\ new[Len(old) + j].content = answer[j].text
                       /\ new[Len(old) + j].html = None
                       /\ new[Len(old) + j].bbox =
                             <<answer[j].box[1] + dx, answer[j].box[2] + dy,
                               answer[j].box[3] + dx, answer[j].box[4] + dy>>
           /\ calls' = Append(calls,
                  Call(IF Flags.apply_ocr THEN "ocr" ELSE "ocr_det_only", index, ref))
           /\ error' = error
           /\ pc' = "ocr"

C10_OcrOncePerCandidate ==
    pc = "ocr" =>
        /\ \A k \in 1..Len(ocr_res_list) :
              /\ images_layout_res[index + 1][ocr_res_list[k]].category \in OcrCategories
              /\ CountCalls(OcrOps, index, ocr_res_list[k]) = IF k < ocr_i THEN 1 ELSE 0
        /\ \A p \in 1..Len(images_layout_res[index + 1]) :
              images_layout_res[index + 1][p].category \in OcrCategories =>
                  Contains(ocr_res_list, p)

\* C10: every OCR step appends only (C10_OcrStep), and while an image is in
\* its OCR stage each OCR candidate already visited has had exactly one engine
\* call and each one still to come has had none.
C10_OcrAppendOnly == [][C10_OcrStep]_vars /\ []C10_OcrOncePerCandidate

C10_Witness ==
    /\ pc = "ocr"
    /\ ocr_i = 3
    /\ Len(images_layout_res[index + 1]) = 3
    /\ images_layout_res[index + 1][3].category = "ocr_text"

====
